---------------------------- MODULE Spec2Model ----------------------------
(***************************************************************************)
(* Model of the gaia_demo viewer (src/src/main.rs): the State struct       *)
(* (camera controller, map mode, labels flag), its event handler, the      *)
(* three per-feature decision callbacks and the frame loop of run().       *)
(*                                                                         *)
(* Numbers.  An f32 altitude is the integer n standing for n * 2^-27; the  *)
(* f32 literals of desired_level are the exact values rustc gives them     *)
(* (0.1f32 = 13421773 * 2^-27, ...).  A min_zoom is an f64 given in        *)
(* halves, so `height as f64 * min_zoom` is n * m in units of 2^-28 and    *)
(* is exact in f64 (24-bit by 4-bit significands).                         *)
(***************************************************************************)
EXTENDS Integers, Sequences, FiniteSets

VARIABLES
    map_mode,        \* State.map_mode
    labels_enabled,  \* State.labels_enabled
    camera_height,   \* State.camera_controller: its altitude
    forwarded,       \* the events State::event passed to camera_controller.event
    pc,              \* position of run() in the frame loop
    e,               \* the event of the current loop iteration
    arrived,         \* the events window.next() has returned so far
    frame,           \* what the State held when the current render call began
    obs              \* the callback invocation the render call is in, if any

vars == <<map_mode, labels_enabled, camera_height, forwarded, pc, e, arrived,
          frame, obs>>

-----------------------------------------------------------------------------
(* Bounds *)

MaxEvents == 3

-----------------------------------------------------------------------------
(* Values *)

MapMode == {"Terrain", "All", "Oecd", "Income", "Exceptional"}

\* Outcome of a call: it returns a value or it panics (unwrap / unreachable!).
Ret(v) == <<"ret", v>>
Panic == <<"panic">>
IsPanic(x) == x[1] = "panic"
Val(x) == x[2]

None == <<"None">>
Some(v) == <<"Some", v>>
IsSome(x) == x[1] = "Some"

\* serde_json values held by a Properties map: a string, a number (an f64,
\* written in halves: Num(3) is 1.5) or a missing key.
Str(s) == <<"str", s>>
Num(n) == <<"num", n>>
Absent == <<"absent">>

\* properties[key].as_str().unwrap()
AsStrUnwrap(props, key) ==
    IF props[key][1] = "str" THEN Ret(props[key][2]) ELSE Panic

\* properties[key].as_f64().unwrap()
AsF64Unwrap(props, key) ==
    IF props[key][1] = "num" THEN Ret(props[key][2]) ELSE Panic


-----------------------------------------------------------------------------
(* f32 / f64 literals of the decision functions *)

F32_0_1 == 13421773     \* 0.1f32, in units of 2^-27
F32_0_2 == 26843546     \* 0.2f32
F32_0_5 == 67108864     \* 0.5f32
F32_0_7 == 93952408     \* 0.7f32
F64_1_5 == 402653184    \* 1.5f64, in units of 2^-28

HIGH_INCOME_OECD == "1. High income: OECD"
UNITED_STATES == "United States of America"

-----------------------------------------------------------------------------
(* impl MapMode *)

\* Mutation of ShouldShow: the Income arm joins Terrain instead of All.
ShouldShow_IncomeHidden(self, properties) ==
    CASE self \in {"Terrain", "Income"} -> Ret(FALSE)
      [] self = "All" -> Ret(TRUE)
      [] self = "Oecd" ->
            LET s == AsStrUnwrap(properties, "INCOME_GRP")
            IN  IF IsPanic(s) THEN Panic ELSE Ret(Val(s) = HIGH_INCOME_OECD)
      [] self = "Exceptional" ->
            LET s == AsStrUnwrap(properties, "ADMIN")
            IN  IF IsPanic(s) THEN Panic ELSE Ret(Val(s) = UNITED_STATES)

\* MapMode::should_show(&self, properties) -> bool
ShouldShow(self, properties) ==
    CASE self = "Terrain" -> Ret(FALSE)
      [] self \in {"All", "Income"} -> Ret(TRUE)
      [] self = "Oecd" ->
            LET s == AsStrUnwrap(properties, "INCOME_GRP")
            IN  IF IsPanic(s) THEN Panic ELSE Ret(Val(s) = HIGH_INCOME_OECD)
      [] self = "Exceptional" ->
            LET s == AsStrUnwrap(properties, "ADMIN")
            IN  IF IsPanic(s) THEN Panic ELSE Ret(Val(s) = UNITED_STATES)

\* The keys should_show indexes.
ShouldShowReads(self) ==
    CASE self \in {"Terrain", "All", "Income"} -> {}
      [] self = "Oecd" -> {"INCOME_GRP"}
      [] self = "Exceptional" -> {"ADMIN"}

\* `x as u8` of an f64 given in halves: truncates, and saturates at the ends.
AsU8(x) == IF x < 0 THEN 0 ELSE IF x \div 2 > 255 THEN 255 ELSE x \div 2

\* A [u8; 4] colour.  HSL::to_rgb belongs to the hsl crate and is left
\* uninterpreted: space "hsl" carries its argument <<h, s, l>>, h in 1/13 of a
\* degree, s and l in tenths; space "rgb" carries <<r, g, b>>.  a is the alpha.
Rgba(space, c, a) == [space |-> space, c |-> c, a |-> a]

\* The palette of MapMode::Income.
IncomePalette(grp) ==
    CASE grp = "1. High income: OECD"    -> Ret(Rgba("rgb", <<0, 255, 0>>, 100))
      [] grp = "2. High income: nonOECD" -> Ret(Rgba("rgb", <<50, 200, 0>>, 100))
      [] grp = "3. Upper middle income"  -> Ret(Rgba("rgb", <<100, 150, 0>>, 100))
      [] grp = "4. Lower middle income"  -> Ret(Rgba("rgb", <<150, 200, 0>>, 100))
      [] grp = "5. Low income"           -> Ret(Rgba("rgb", <<255, 0, 0>>, 100))
      [] OTHER                           -> Panic   \* unreachable!()

\* MapMode::color(&self, properties) -> [u8; 4]; secs is SystemTime::now() in
\* whole seconds since the epoch.
Color(self, properties, secs) ==
    CASE self \in {"Terrain", "All", "Oecd"} ->
            LET n == AsF64Unwrap(properties, "MAPCOLOR13")
            IN  IF IsPanic(n) THEN Panic
                ELSE Ret(Rgba("hsl", <<360 * AsU8(Val(n)), 10, 3>>, 64))
      [] self = "Income" ->
            LET s == AsStrUnwrap(properties, "INCOME_GRP")
            IN  IF IsPanic(s) THEN Panic ELSE IncomePalette(Val(s))
      [] self = "Exceptional" ->
            Ret(Rgba("hsl", <<((secs * 100) % 360) * 13, 10, 5>>, 100))

\* The keys color indexes.
ColorReads(self) ==
    CASE self \in {"Terrain", "All", "Oecd"} -> {"MAPCOLOR13"}
      [] self = "Income" -> {"INCOME_GRP"}
      [] self = "Exceptional" -> {}

-----------------------------------------------------------------------------
(* impl State: the decision functions *)

\* Mutation of DesiredLevel: the first comparison is <= instead of <.
DesiredLevel_Inclusive(h) ==
    IF h <= F32_0_1 THEN 5
    ELSE IF h < F32_0_2 THEN 4
    ELSE IF h < F32_0_5 THEN 3
    ELSE IF h < F32_0_7 THEN 2
    ELSE 1

\* State::desired_level(&self, camera_height: f32) -> u8
DesiredLevel(h) ==
    IF h < F32_0_1 THEN 5
    ELSE IF h < F32_0_2 THEN 4
    ELSE IF h < F32_0_5 THEN 3
    ELSE IF h < F32_0_7 THEN 2
    ELSE 1

\* Mutation of PolygonColorChooser: the two branches are swapped.
PolygonColorChooser_Swapped(properties, secs) ==
    LET show == ShouldShow(map_mode, properties)
    IN  IF IsPanic(show) THEN Panic
        ELSE IF ~Val(show)
        THEN LET c == Color(map_mode, properties, secs)
             IN  IF IsPanic(c) THEN Panic ELSE Ret(Some(Val(c)))
        ELSE Ret(None)

\* Mutation of PolygonColorChooser: the colour is computed before should_show
\* is asked.
PolygonColorChooser_Eager(properties, secs) ==
    LET c == Color(map_mode, properties, secs)
        show == ShouldShow(map_mode, properties)
    IN  IF IsPanic(c) \/ IsPanic(show) THEN Panic
        ELSE IF Val(show) THEN Ret(Some(Val(c)))
        ELSE Ret(None)

\* State::polygon_color_chooser(&self, properties) -> Option<[u8; 4]>
PolygonColorChooser(properties, secs) ==
    LET show == ShouldShow(map_mode, properties)
    IN  IF IsPanic(show) THEN Panic
        ELSE IF Val(show)
        THEN LET c == Color(map_mode, properties, secs)
             IN  IF IsPanic(c) THEN Panic ELSE Ret(Some(Val(c)))
        ELSE Ret(None)

\* The keys polygon_color_chooser indexes on the way.
PolygonColorChooserReads(properties) ==
    LET show == ShouldShow(map_mode, properties)
    IN  ShouldShowReads(map_mode) \cup
        (IF ~IsPanic(show) /\ Val(show) THEN ColorReads(map_mode) ELSE {})

\* gaia::LabelStyle; colours are [f32; 4] in tenths.
LabelStyle(text, scale, text_color) ==
    [text |-> text, scale |-> scale, text_color |-> text_color,
     border_color |-> <<0, 0, 0, 10>>, border_width |-> 1]

\* Mutation of LabelStyleChooser: the threshold comparison is >= instead of >.
LabelStyleChooser_Inclusive(properties) ==
    IF ~labels_enabled THEN Ret(None)
    ELSE
    LET min_zoom == AsF64Unwrap(properties, "min_zoom")
    IN  IF IsPanic(min_zoom) THEN Panic
        ELSE IF camera_height * Val(min_zoom) >= F64_1_5 THEN Ret(None)
        ELSE
        LET text == AsStrUnwrap(properties, "NAME")
            cap  == AsF64Unwrap(properties, "ADM0CAP")
        IN  IF IsPanic(text) THEN Panic
            ELSE IF IsPanic(cap) THEN Panic
            ELSE IF Val(cap) = 2
                 THEN Ret(Some(LabelStyle(Val(text), 30, <<10, 10, 0, 10>>)))
                 ELSE Ret(Some(LabelStyle(Val(text), 20, <<10, 10, 10, 10>>)))

\* State::label_style_chooser(&self, properties) -> Option<gaia::LabelStyle>
LabelStyleChooser(properties) ==
    IF ~labels_enabled THEN Ret(None)
    ELSE
    LET min_zoom == AsF64Unwrap(properties, "min_zoom")
    IN  IF IsPanic(min_zoom) THEN Panic
        ELSE IF camera_height * Val(min_zoom) > F64_1_5 THEN Ret(None)
        ELSE
        LET text == AsStrUnwrap(properties, "NAME")
            cap  == AsF64Unwrap(properties, "ADM0CAP")
        IN  IF IsPanic(text) THEN Panic
            ELSE IF IsPanic(cap) THEN Panic
            ELSE IF Val(cap) = 2      \* == 1.0
                 THEN Ret(Some(LabelStyle(Val(text), 30, <<10, 10, 0, 10>>)))
                 ELSE Ret(Some(LabelStyle(Val(text), 20, <<10, 10, 10, 10>>)))

\* The keys label_style_chooser indexes on the way.
LabelStyleChooserReads(properties) ==
    IF ~labels_enabled THEN {}
    ELSE
    LET min_zoom == AsF64Unwrap(properties, "min_zoom")
    IN  IF IsPanic(min_zoom) THEN {"min_zoom"}
        ELSE IF camera_height * Val(min_zoom) > F64_1_5 THEN {"min_zoom"}
        ELSE IF IsPanic(AsStrUnwrap(properties, "NAME")) THEN {"min_zoom", "NAME"}
        ELSE {"min_zoom", "NAME", "ADM0CAP"}

-----------------------------------------------------------------------------
(* Inputs *)

Keyboard(key) == <<"Keyboard", key>>
Mouse(b) == <<"Mouse", b>>
NoButton == <<"", "">>

\* piston events: button presses and releases, motion, and the loop events.
Event ==
    { [kind |-> "press", button |-> b] :
        b \in {Keyboard(k) : k \in {"D0", "D1", "D2", "D3", "D4", "D5", "A"}}
              \cup {Mouse("Left")} }
    \cup { [kind |-> "release", button |-> Keyboard("D3")] }
    \cup { [kind |-> k, button |-> NoButton] : k \in {"move", "render", "update"} }

NoEvent == [kind |-> "none", button |-> NoButton]

\* Altitudes the camera takes: just under 0.05, 0.3f32, 0.5, 0.75, 1.5.
CameraHeights == {6710886, 40265320, 67108864, 100663296, 201326592}

\* Altitudes the renderer asks a level for: the four literals, the f32 just
\* below each, and the camera's.
Altitudes ==
    CameraHeights \cup
    {F32_0_1 - 1, F32_0_1, F32_0_2 - 2, F32_0_2, F32_0_5 - 4, F32_0_5,
     F32_0_7 - 8, F32_0_7}

\* SystemTime::now() in seconds; (secs * 100) % 360 has period 18.
Secs == {0, 1, 5, 17}

Props(grp, admin, color, min_zoom, name, cap) ==
    [INCOME_GRP |-> grp, ADMIN |-> admin, MAPCOLOR13 |-> color,
     min_zoom |-> min_zoom, NAME |-> name, ADM0CAP |-> cap]

IncomeGroups ==
    {"1. High income: OECD", "2. High income: nonOECD", "3. Upper middle income",
     "4. Lower middle income", "5. Low income"}

\* A record of the attribute schema: every key present and of its type, the
\* income group one of the five.
Conforms(props) ==
    /\ props.INCOME_GRP[1] = "str" /\ props.INCOME_GRP[2] \in IncomeGroups
    /\ props.ADMIN[1] = "str"
    /\ props.MAPCOLOR13[1] = "num"
    /\ props.min_zoom[1] = "num"
    /\ props.NAME[1] = "str"
    /\ props.ADM0CAP[1] = "num"

EmptyRecord == Props(Absent, Absent, Absent, Absent, Absent, Absent)

\* Feature records the renderer passes.  The first two sets vary the keys the
\* polygon colour reads, the last two the keys the label style reads; each
\* holds records of the schema and records with a key missing, of the wrong
\* type, or an income group off the list.
Properties ==
    { Props(g, Str(a), c, Num(4), Str("Ottawa"), Num(0)) :
        g \in {Str(x) : x \in IncomeGroups} \cup {Str("6. Unknown"), Num(2), Absent},
        a \in {"Canada"},
        c \in {Num(0), Num(23), Str("12"), Absent} }
    \cup
    { Props(Str(g), a, Num(24), Num(4), Str("Washington"), Num(2)) :
        g \in {"1. High income: OECD", "5. Low income"},
        a \in {Str(UNITED_STATES), Str("Canada"), Num(2), Absent} }
    \cup
    { Props(Str("5. Low income"), Str("Canada"), Num(0), z, Str("Ottawa"), cap) :
        z \in {Num(2), Num(4), Num(6), Num(10), Str("2"), Absent},
        cap \in {Num(2), Num(0), Num(4), Absent} }
    \cup
    { Props(Str("5. Low income"), Str("Canada"), Num(0), Num(2), n, Num(2)) :
        n \in {Num(2), Absent} }
    \cup {EmptyRecord}

-----------------------------------------------------------------------------
(* State *)

\* What the State holds, as a render call sees it.
Snapshot ==
    [map_mode |-> map_mode, labels_enabled |-> labels_enabled,
     camera_height |-> camera_height]

NoFrame == [map_mode |-> "", labels_enabled |-> FALSE, camera_height |-> 0]

\* One callback invocation: the function, its argument (a record with the
\* clock value read, or an altitude), its outcome, and the State it saw.
Obs(fn, props, secs, h, out) ==
    [fn |-> fn, properties |-> props, secs |-> secs, h |-> h, out |-> out,
     saw |-> Snapshot]

NoObs ==
    [fn |-> "", properties |-> EmptyRecord, secs |-> 0, h |-> 0,
     out |-> Ret(None), saw |-> NoFrame]

\* The State struct and the locals of run().
TypeOK ==
    /\ map_mode \in MapMode
    /\ labels_enabled \in BOOLEAN
    /\ camera_height \in CameraHeights
    /\ forwarded \in Seq(Event)
    /\ pc \in {"next", "event", "draw_3d", "render", "draw_2d", "done", "panicked"}
    /\ e \in Event \cup {NoEvent}
    /\ arrived \in Seq(Event) /\ Len(arrived) <= MaxEvents
    /\ frame \in {NoFrame, Snapshot}
    /\ obs.fn \in {"", "polygon_color_chooser", "label_style_chooser",
                   "desired_level"}

\* run(): the State as constructed, before the first window.next().
Init ==
    /\ map_mode = "Terrain"
    /\ labels_enabled = FALSE
    /\ camera_height \in CameraHeights
    /\ forwarded = <<>>
    /\ pc = "next"
    /\ e = NoEvent
    /\ arrived = <<>>
    /\ frame = NoFrame
    /\ obs = NoObs

-----------------------------------------------------------------------------
(* State::event *)

\* CameraController::event: the controller moves; any event may change the
\* altitude.
CameraControllerEvent(ev) ==
    camera_height' \in CameraHeights

\* Mutation of PressMapMode: the D4 arm assigns the mode of the D3 arm.
PressMapMode_D4Oecd(button, mode) ==
    CASE button = Keyboard("D1") -> "Terrain"
      [] button = Keyboard("D2") -> "All"
      [] button = Keyboard("D3") -> "Oecd"
      [] button = Keyboard("D4") -> "Oecd"
      [] button = Keyboard("D5") -> "Exceptional"
      [] OTHER -> mode

\* The closure of e.press in State::event: the mode after a press of button.
PressMapMode(button, mode) ==
    CASE button = Keyboard("D1") -> "Terrain"
      [] button = Keyboard("D2") -> "All"
      [] button = Keyboard("D3") -> "Oecd"
      [] button = Keyboard("D4") -> "Income"
      [] button = Keyboard("D5") -> "Exceptional"
      [] OTHER -> mode

\* Mutation of PressLabelsEnabled: D0 switches the labels on instead of
\* toggling them.
PressLabelsEnabled_SetOnly(button, labels) ==
    IF button = Keyboard("D0") THEN TRUE ELSE labels

\* The closure of e.press in State::event: the labels flag after a press.
PressLabelsEnabled(button, labels) ==
    IF button = Keyboard("D0") THEN ~labels ELSE labels

\* Mutation of StateEvent: a press the dispatch handles is not passed on to
\* the camera controller.
StateEvent_Consuming ==
    /\ pc = "event"
    /\ IF e.kind = "press" /\ e.button \in
            {Keyboard(k) : k \in {"D0", "D1", "D2", "D3", "D4", "D5"}}
       THEN UNCHANGED <<forwarded, camera_height>>
       ELSE forwarded' = Append(forwarded, e) /\ CameraControllerEvent(e)
    /\ map_mode' = IF e.kind = "press" THEN PressMapMode(e.button, map_mode)
                   ELSE map_mode
    /\ labels_enabled' = IF e.kind = "press"
                         THEN PressLabelsEnabled(e.button, labels_enabled)
                         ELSE labels_enabled
    /\ pc' = "draw_3d"
    /\ UNCHANGED <<e, arrived, frame, obs>>

\* State::event(&mut self, e), called by run() on the event of the iteration.
StateEvent ==
    /\ pc = "event"
    /\ forwarded' = Append(forwarded, e)     \* self.camera_controller.event(e)
    /\ CameraControllerEvent(e)
    /\ map_mode' = IF e.kind = "press" THEN PressMapMode(e.button, map_mode)
                   ELSE map_mode
    /\ labels_enabled' = IF e.kind = "press"
                         THEN PressLabelsEnabled(e.button, labels_enabled)
                         ELSE labels_enabled
    /\ pc' = "draw_3d"
    /\ UNCHANGED <<e, arrived, frame, obs>>

-----------------------------------------------------------------------------
(* run(): the frame loop *)

\* window.next() returns Some(e).
WindowNext ==
    /\ pc = "next"
    /\ Len(arrived) < MaxEvents
    /\ \E ev \in Event :
        /\ e' = ev
        /\ arrived' = Append(arrived, ev)
    /\ pc' = "event"
    /\ UNCHANGED <<map_mode, labels_enabled, camera_height, forwarded, frame, obs>>

\* window.next() returns None: the loop ends and run() returns Ok(()).
WindowClosed ==
    /\ pc = "next"
    /\ pc' = "done"
    /\ UNCHANGED <<map_mode, labels_enabled, camera_height, forwarded, e,
                   arrived, frame, obs>>

\* Mutation of Draw3d: the frame is drawn before state.event(&e) has run.
Draw3d_BeforeEvent ==
    /\ pc \in {"event", "draw_3d"}
    /\ IF e.kind = "render"
       THEN pc' = "render" /\ frame' = Snapshot
       ELSE pc' = "draw_2d" /\ frame' = frame
    /\ UNCHANGED <<map_mode, labels_enabled, camera_height, forwarded, e,
                   arrived, obs>>

\* window.draw_3d(&e, ..): on a render event the closure runs and calls
\* gaia_renderer.render with the three callbacks; on any other it does nothing.
Draw3d ==
    /\ pc = "draw_3d"
    /\ IF e.kind = "render"
       THEN pc' = "render" /\ frame' = Snapshot
       ELSE pc' = "draw_2d" /\ frame' = frame
    /\ UNCHANGED <<map_mode, labels_enabled, camera_height, forwarded, e,
                   arrived, obs>>

\* The renderer calls &|properies| state.polygon_color_chooser(properies).
PolygonColorCallback ==
    /\ pc = "render"
    /\ obs = NoObs
    /\ \E props \in Properties, secs \in Secs :
        LET out == PolygonColorChooser(props, secs)
            read == IF map_mode = "Exceptional" THEN secs ELSE 0
        IN  /\ obs' = Obs("polygon_color_chooser", props, read, 0, out)
            /\ pc' = IF IsPanic(out) THEN "panicked" ELSE pc
    /\ UNCHANGED <<map_mode, labels_enabled, camera_height, forwarded, e,
                   arrived, frame>>

\* The renderer calls &|properies| state.label_style_chooser(properies).
LabelStyleCallback ==
    /\ pc = "render"
    /\ obs = NoObs
    /\ \E props \in Properties :
        LET out == LabelStyleChooser(props)
        IN  /\ obs' = Obs("label_style_chooser", props, 0, 0, out)
            /\ pc' = IF IsPanic(out) THEN "panicked" ELSE pc
    /\ UNCHANGED <<map_mode, labels_enabled, camera_height, forwarded, e,
                   arrived, frame>>

\* The renderer calls &|camera_position| state.desired_level(camera_position).
DesiredLevelCallback ==
    /\ pc = "render"
    /\ obs = NoObs
    /\ \E h \in Altitudes :
        obs' = Obs("desired_level", EmptyRecord, 0, h, Ret(DesiredLevel(h)))
    /\ UNCHANGED <<map_mode, labels_enabled, camera_height, forwarded, pc, e,
                   arrived, frame>>

\* The callback returns to the renderer.
CallbackReturn ==
    /\ pc = "render"
    /\ obs # NoObs
    /\ obs' = NoObs
    /\ UNCHANGED <<map_mode, labels_enabled, camera_height, forwarded, pc, e,
                   arrived, frame>>

\* gaia_renderer.render returns; the closure of draw_3d ends.
RenderReturn ==
    /\ pc = "render"
    /\ obs = NoObs
    /\ pc' = "draw_2d"
    /\ frame' = NoFrame
    /\ UNCHANGED <<map_mode, labels_enabled, camera_height, forwarded, e,
                   arrived, obs>>

\* window.draw_2d(&e, ..): the overlay; the iteration ends.
Draw2d ==
    /\ pc = "draw_2d"
    /\ pc' = "next"
    /\ UNCHANGED <<map_mode, labels_enabled, camera_height, forwarded, e,
                   arrived, frame, obs>>

Next ==
    \/ WindowNext
    \/ WindowClosed
    \/ StateEvent
    \/ Draw3d
    \/ PolygonColorCallback
    \/ LabelStyleCallback
    \/ DesiredLevelCallback
    \/ CallbackReturn
    \/ RenderReturn
    \/ Draw2d

Spec == Init /\ [][Next]_vars

-----------------------------------------------------------------------------
(* History *)

\* The events State::event has been applied to: all that arrived, but for the
\* one the loop is about to apply.
Applied ==
    IF pc = "event" THEN SubSeq(arrived, 1, Len(arrived) - 1) ELSE arrived

Press(key) == [kind |-> "press", button |-> Keyboard(key)]

\* The render call is running and is in no callback: the states in which the
\* renderer calls one of the three callbacks with an argument of its choice.
RendererMayCall == pc = "render" /\ obs = NoObs

-----------------------------------------------------------------------------
(* Properties *)

\* The step function of the level of detail, by its boundaries.
StepLevel(a) ==
    CASE a < F32_0_1 -> 5
      [] F32_0_1 <= a /\ a < F32_0_2 -> 4
      [] F32_0_2 <= a /\ a < F32_0_5 -> 3
      [] F32_0_5 <= a /\ a < F32_0_7 -> 2
      [] a >= F32_0_7 -> 1

\* C1: desired_level is the step function with boundaries 0.1, 0.2, 0.5, 0.7:
\* 5 below 0.1, 4 in [0.1, 0.2), 3 in [0.2, 0.5), 2 in [0.5, 0.7), 1 from 0.7
\* on.  A boundary value falls in the coarser bucket, the level is in 1..5,
\* it never increases with the altitude, and a callback invocation returns it
\* whatever mode, labels flag and camera the State holds.
C1_DesiredLevelSteps ==
    /\ RendererMayCall =>
        /\ \A a \in Altitudes :
            /\ DesiredLevel(a) = StepLevel(a)
            /\ DesiredLevel(a) \in 1..5
        /\ DesiredLevel(F32_0_1) = 4 /\ DesiredLevel(F32_0_1 - 1) = 5
        /\ DesiredLevel(F32_0_7) = 1 /\ DesiredLevel(F32_0_7 - 8) = 2
        /\ \A a, b \in Altitudes : a <= b => DesiredLevel(a) >= DesiredLevel(b)
    /\ obs.fn = "desired_level" => obs.out = Ret(StepLevel(obs.h))

\* C1 witness: in Income mode with labels on, the renderer asked the level of
\* exactly 0.1 and got 4.
C1_Witness ==
    /\ obs.fn = "desired_level"
    /\ obs.h = F32_0_1
    /\ obs.out = Ret(4)
    /\ obs.saw.map_mode = "Income"
    /\ obs.saw.labels_enabled

\* A record whose income group is the high-income-OECD category and whose
\* colouring bucket is a number.
IsHighIncomeOecd(props) ==
    /\ props.INCOME_GRP = Str(HIGH_INCOME_OECD)
    /\ props.MAPCOLOR13[1] = "num"

\* C2: whenever the renderer may call it and for every feature record,
\* polygon_color_chooser returns Some(colour of the active mode) exactly when
\* should_show of the active mode is true for the record, and None otherwise;
\* a high-income-OECD record gets Some with alpha 64 in Oecd mode and None in
\* Terrain mode.  (A call that panics returns neither; a record of the schema
\* never makes it panic.)
C2_PolygonColorIffShown ==
    /\ RendererMayCall => \A props \in Properties, secs \in Secs :
        LET out  == PolygonColorChooser(props, secs)
            show == ShouldShow(map_mode, props)
            c    == Color(map_mode, props, secs)
        IN  /\ (~IsPanic(show) /\ ~Val(show)) => out = Ret(None)
            /\ (~IsPanic(show) /\ Val(show) /\ ~IsPanic(c))
                    => out = Ret(Some(Val(c)))
            /\ ~IsPanic(out) =>
                    /\ IsSome(Val(out)) <=> (~IsPanic(show) /\ Val(show))
                    /\ ~IsSome(Val(out)) <=> (~IsPanic(show) /\ ~Val(show))
            /\ Conforms(props) => ~IsPanic(out)
            /\ (IsHighIncomeOecd(props) /\ map_mode = "Oecd") =>
                    /\ ~IsPanic(out) /\ IsSome(Val(out))
                    /\ Val(out)[2].a = 64
            /\ map_mode = "Terrain" => out = Ret(None)
    /\ (obs.fn = "polygon_color_chooser" /\ ~IsPanic(obs.out)) =>
        LET show == ShouldShow(obs.saw.map_mode, obs.properties)
        IN  IsSome(Val(obs.out)) <=> (~IsPanic(show) /\ Val(show))

\* C2 witness: in Oecd mode the renderer asked the colour of a high-income-OECD
\* record and got Some with alpha 64.
C2_Witness ==
    /\ obs.fn = "polygon_color_chooser"
    /\ obs.saw.map_mode = "Oecd"
    /\ IsHighIncomeOecd(obs.properties)
    /\ ~IsPanic(obs.out)
    /\ IsSome(Val(obs.out))
    /\ Val(obs.out)[2].a = 64

\* C3: should_show is decided by the active mode and the record alone: false
\* for every record in Terrain, true for every record in All and in Income,
\* true in Oecd exactly when the income group is the high-income-OECD
\* category, true in Exceptional exactly when the admin name is the designated
\* country and false for every other admin name; so it is whenever the renderer
\* may call, whatever the camera and the labels flag are.
C3_ShouldShowByMode ==
    RendererMayCall => \A props \in Properties :
        LET show == ShouldShow(map_mode, props)
            shown == ~IsPanic(show) /\ Val(show)
        IN  /\ map_mode = "Terrain" => show = Ret(FALSE)
            /\ map_mode \in {"All", "Income"} => show = Ret(TRUE)
            /\ map_mode = "Oecd" =>
                    /\ shown <=> props.INCOME_GRP = Str(HIGH_INCOME_OECD)
                    /\ props.INCOME_GRP[1] = "str" => ~IsPanic(show)
            /\ map_mode = "Exceptional" =>
                    /\ shown <=> props.ADMIN = Str(UNITED_STATES)
                    /\ (props.ADMIN[1] = "str" /\ props.ADMIN # Str(UNITED_STATES))
                            => show = Ret(FALSE)

\* C3 witness: in Exceptional mode, with the labels on, the record of another
\* country was asked about and got no colour.
C3_Witness ==
    /\ obs.fn = "polygon_color_chooser"
    /\ obs.saw.map_mode = "Exceptional"
    /\ obs.saw.labels_enabled
    /\ obs.properties.ADMIN = Str("Canada")
    /\ obs.out = Ret(None)

\* The keys label_style_chooser needs are there and of their types.
LabelKeysOk(props) ==
    /\ props.min_zoom[1] = "num"
    /\ props.NAME[1] = "str"
    /\ props.ADM0CAP[1] = "num"

\* C4: label_style_chooser returns None whenever the labels are disabled;
\* with labels enabled it returns None whenever camera_height * min_zoom > 1.5,
\* strictly (a product of exactly 1.5 yields a label); in every remaining case
\* it returns Some style of scale 30 when the capital flag equals 1 and 20
\* otherwise, with border width 1; so it is in every map mode.
C4_LabelStyle ==
    /\ RendererMayCall => \A props \in Properties :
        LET out == LabelStyleChooser(props)
        IN  /\ ~labels_enabled => out = Ret(None)
            /\ (labels_enabled /\ props.min_zoom[1] = "num"
                    /\ camera_height * props.min_zoom[2] > F64_1_5)
                    => out = Ret(None)
            /\ (labels_enabled /\ LabelKeysOk(props)
                    /\ camera_height * props.min_zoom[2] <= F64_1_5)
                    => /\ ~IsPanic(out) /\ IsSome(Val(out))
                       /\ Val(out)[2].scale =
                            IF props.ADM0CAP = Num(2) THEN 30 ELSE 20
                       /\ Val(out)[2].border_width = 1
            /\ Conforms(props) => ~IsPanic(out)
    /\ (obs.fn = "label_style_chooser" /\ ~IsPanic(obs.out)) =>
        (IsSome(Val(obs.out)) <=>
            /\ obs.saw.labels_enabled
            /\ obs.saw.camera_height * obs.properties.min_zoom[2] <= F64_1_5)

\* C4 witness: with labels on, in a mode other than Terrain, a capital whose
\* product with the altitude is exactly 1.5 got a label of scale 30.
C4_Witness ==
    /\ obs.fn = "label_style_chooser"
    /\ obs.saw.map_mode = "All"
    /\ obs.properties.min_zoom[1] = "num"
    /\ obs.saw.camera_height * obs.properties.min_zoom[2] = F64_1_5
    /\ obs.properties.ADM0CAP = Num(2)
    /\ ~IsPanic(obs.out)
    /\ IsSome(Val(obs.out))
    /\ Val(obs.out)[2].scale = 30

\* The mode each mode-select key stands for.
KeyMode(key) ==
    CASE key = "D1" -> "Terrain"
      [] key = "D2" -> "All"
      [] key = "D3" -> "Oecd"
      [] key = "D4" -> "Income"
      [] key = "D5" -> "Exceptional"

ModeKeys == {"D1", "D2", "D3", "D4", "D5"}

\* The positions of seq that hold a press of one of keys.
PressesOf(seq, keys) ==
    {i \in 1..Len(seq) : seq[i] \in {Press(k) : k \in keys}}

\* The mode of the last mode-select key pressed in seq, Terrain if none was.
LastSelected(seq) ==
    LET at == PressesOf(seq, ModeKeys)
    IN  IF at = {} THEN "Terrain"
        ELSE LET last == CHOOSE i \in at : \A j \in at : j <= i
             IN  KeyMode(seq[last].button[2])

\* C5: the map mode is always one of the five modes, Terrain initially, and
\* after any sequence of events it is the mode of the last mode-select key
\* pressed (D1 Terrain, D2 All, D3 Oecd, D4 Income, D5 Exceptional), whatever
\* the mode was before that press.
C5_ModeIsLastSelected ==
    /\ map_mode \in MapMode
    /\ map_mode = LastSelected(Applied)

\* C5 witness: D5 then D3 were pressed and applied, and the mode is Oecd.
C5_Witness ==
    /\ Len(Applied) >= 2
    /\ Applied[1] = Press("D5")
    /\ Applied[2] = Press("D3")
    /\ map_mode = "Oecd"

\* What one step may do to the mode and the labels flag: a step that applies
\* a D0 press negates the flag and keeps the mode, one that applies a press of
\* D1..D5 keeps the flag, and every other step keeps both.
ModeAndLabelsFrame ==
    IF pc = "event" /\ pc' # "event"
    THEN /\ e = Press("D0") =>
                labels_enabled' = ~labels_enabled /\ map_mode' = map_mode
         /\ e \in {Press(k) : k \in ModeKeys} =>
                labels_enabled' = labels_enabled
         /\ e \notin {Press(k) : k \in ModeKeys \cup {"D0"}} =>
                labels_enabled' = labels_enabled /\ map_mode' = map_mode
    ELSE labels_enabled' = labels_enabled /\ map_mode' = map_mode

\* C6: the labels flag and the map mode are independent: a D0 press negates
\* labels_enabled and leaves the mode, a press of D1..D5 leaves
\* labels_enabled, every other event leaves both; so labels_enabled, false
\* initially, is true exactly when D0 was pressed an odd number of times.
C6_LabelsIndependentOfMode ==
    /\ [](labels_enabled <=> Cardinality(PressesOf(Applied, {"D0"})) % 2 = 1)
    /\ [][ModeAndLabelsFrame]_vars

\* C6 witness: D0, a mode key and D0 again were applied: the labels are off
\* again and the mode is the key's.
C6_Witness ==
    /\ Applied = <<Press("D0"), Press("D4"), Press("D0")>>
    /\ ~labels_enabled
    /\ map_mode = "Income"

\* C7: State::event passes every event it receives on to
\* CameraController.event exactly once and in arrival order, presses of the
\* mode-select keys and of the labels key included: what the controller has
\* received is at every moment the sequence of events applied so far.
C7_EveryEventForwardedOnce ==
    /\ forwarded = Applied
    /\ Len(arrived) - Len(forwarded) \in {0, 1}

\* C7 witness: a mode-select press, a labels press and a motion event were
\* applied, and the controller received the three in that order.
C7_Witness ==
    /\ pc # "event"
    /\ arrived = <<Press("D3"), Press("D0"), [kind |-> "move", button |-> NoButton]>>
    /\ forwarded = arrived

\* C8: a schema violation met during a feature-decision call does not
\* terminate the process: the feature is skipped and later features and
\* frames are still processed.
C8_SchemaViolationSurvived ==
    (obs.fn \in {"polygon_color_chooser", "label_style_chooser"}
        /\ IsPanic(obs.out)) =>
        /\ pc = "render"
        /\ obs.saw = Snapshot

\* C9: the event of an iteration is applied before that iteration's renderer
\* call, and between the start and the return of a renderer call no event is
\* applied: mode, labels flag and altitude are what they were when the call
\* began, and every callback invocation of the call observes those values.
C9_RenderSeesOneState ==
    pc \in {"render", "panicked"} =>
        /\ forwarded = arrived
        /\ e = arrived[Len(arrived)]
        /\ e.kind = "render"
        /\ frame = Snapshot
        /\ obs # NoObs => obs.saw = frame

\* C9 witness: a label callback runs inside a render call that follows two
\* state-changing presses.
C9_Witness ==
    /\ pc = "render"
    /\ arrived = <<Press("D2"), Press("D0"), [kind |-> "render", button |-> NoButton]>>
    /\ obs.fn = "label_style_chooser"
    /\ obs.saw = frame
    /\ frame.map_mode = "All"
    /\ frame.labels_enabled

\* C10: while the mode is Terrain and the labels are disabled, as they are
\* until D2..D5 or D0 is pressed, polygon_color_chooser and
\* label_style_chooser return None without reading any key of the record, so
\* no record, not even the empty one, makes a decision call fail; a decision
\* call fails only after a press of D2..D5 or of D0.
C10_NoReadInTerrainWithoutLabels ==
    /\ (RendererMayCall /\ map_mode = "Terrain" /\ ~labels_enabled) =>
        \A props \in Properties, secs \in Secs :
            /\ PolygonColorChooser(props, secs) = Ret(None)
            /\ PolygonColorChooserReads(props) = {}
            /\ LabelStyleChooser(props) = Ret(None)
            /\ LabelStyleChooserReads(props) = {}
    /\ PressesOf(Applied, {"D2", "D3", "D4", "D5", "D0"}) = {} =>
        /\ map_mode = "Terrain" /\ ~labels_enabled
        /\ ~IsPanic(obs.out)
    /\ pc = "panicked" =>
        /\ IsPanic(obs.out)
        /\ PressesOf(Applied, {"D2", "D3", "D4", "D5", "D0"}) # {}

\* C10 witness: no key was pressed, and the renderer asked the colour of the
\* empty record and got None.
C10_Witness ==
    /\ PressesOf(arrived, {"D2", "D3", "D4", "D5", "D0"}) = {}
    /\ obs.fn = "polygon_color_chooser"
    /\ obs.properties = EmptyRecord
    /\ obs.out = Ret(None)
    /\ pc = "render"

=============================================================================
